---- MODULE Spec2Model ----
(***************************************************************************)
(* A model of the federated chat server of src/rust/src/main.rs.           *)
(*                                                                         *)
(* Strings are sequences of atoms: an atom is a run of characters the code *)
(* never looks inside (a name, a verb, a password), or one of the          *)
(* separator characters " ", ":", "@", ",".  A socket is a stream of       *)
(* lines (tokio's Lines framing); the trailing "\n" of a record is the     *)
(* line boundary and is not part of the sequence.                          *)
(*                                                                         *)
(* An Option is a sequence of length at most one: None is <<>>, Some(x) is *)
(* <<x>>.  A HashMap is a function whose domain is its key set.            *)
(***************************************************************************)
EXTENDS Integers, Sequences, FiniteSets, TLC

None == <<>>
Some(x) == <<x>>

SP == " "

\* str::contains(char)
Contains(s, a) == \E i \in 1..Len(s) : s[i] = a

\* index of the first occurrence of atom a in s, 0 when there is none
IndexOf(s, a) ==
  IF Contains(s, a) THEN CHOOSE i \in 1..Len(s) : s[i] = a /\ \A j \in 1..(i-1) : s[j] # a
  ELSE 0

\* str::split_once(char): None, or Some(<<before, after>>)
SplitOnce(s, a) ==
  LET i == IndexOf(s, a)
  IN IF i = 0 THEN None ELSE Some(<<SubSeq(s, 1, i-1), SubSeq(s, i+1, Len(s))>>)

\* str::split(", "): the pieces between occurrences of the two-character
\* separator; a string without the separator (the empty one too) is one piece
RECURSIVE SplitCommaSpace(_)
SplitCommaSpace(s) ==
  LET hits == {i \in 1..(Len(s)-1) : s[i] = "," /\ s[i+1] = SP}
  IN IF hits = {} THEN <<s>>
     ELSE LET i == CHOOSE k \in hits : \A j \in hits : k <= j
          IN <<SubSeq(s, 1, i-1)>> \o SplitCommaSpace(SubSeq(s, i+2, Len(s)))

\* fn two
two(input) ==
  LET so == SplitOnce(input, SP)
  IN IF so # None /\ ~Contains(so[1][2], SP) THEN so ELSE None

\* the `let (kind, args) = input.split_once(' ').unwrap_or((input, ""))` of both parsers
KindOf(input) == LET so == SplitOnce(input, SP) IN IF so = None THEN input ELSE so[1][1]
ArgsOf(input) == LET so == SplitOnce(input, SP) IN IF so = None THEN <<>> ELSE so[1][2]

\* fn parse_client
parse_client(input) ==
  LET kind == KindOf(input)
      args == ArgsOf(input)
  IN CASE kind = <<"REGISTER">> ->
            LET t == two(args)
            IN IF t = None THEN None
               ELSE Some([kind |-> "Register", username |-> t[1][1], password |-> t[1][2]])
       [] kind = <<"LOGIN">> ->
            LET t == two(args)
            IN IF t = None THEN None
               ELSE Some([kind |-> "Login", username |-> t[1][1], password |-> t[1][2]])
       [] kind = <<"JOIN">> ->
            IF Contains(args, SP) THEN None ELSE Some([kind |-> "Join", channel |-> args])
       [] kind = <<"CREATE">> ->
            IF Contains(args, SP) THEN None ELSE Some([kind |-> "Create", channel |-> args])
       [] kind = <<"SAY">> ->
            LET t == SplitOnce(args, SP)
            IN IF t = None THEN None
               ELSE Some([kind |-> "Say", channel |-> t[1][1], message |-> t[1][2]])
       [] kind = <<"CHANNELS">> -> Some([kind |-> "Channels"])
       [] OTHER -> None

\* the FEDRESULT arm of parse_server
parse_fedresult(args) ==
  LET a == SplitOnce(args, SP)
  IN IF a = None THEN None ELSE
     LET b == SplitOnce(a[1][2], SP)
     IN IF b = None THEN None ELSE
        LET c == SplitOnce(b[1][2], SP)
        IN IF c = None THEN None ELSE
           LET user == a[1][1]
               kind == b[1][1]
               channel == c[1][1]
               rest == c[1][2]
           IN CASE kind = <<"JOIN">> ->
                     IF rest \notin {<<"0">>, <<"1">>} THEN None
                     ELSE Some([kind |-> "ResultJoin", user |-> user, channel |-> channel,
                                status |-> rest])
                [] kind = <<"SAY">> ->
                     LET d == SplitOnce(rest, SP)
                     IN IF d = None THEN None
                        ELSE IF d[1][1] \notin {<<"0">>, <<"1">>} THEN None
                        ELSE Some([kind |-> "ResultSay", user |-> user, channel |-> channel,
                                   status |-> d[1][1], msg |-> d[1][2]])
                [] OTHER -> None

\* fn parse_server
parse_server(input) ==
  LET kind == KindOf(input)
      args == ArgsOf(input)
  IN CASE kind = <<"FEDOUT">> -> Some([kind |-> "Out"])
       [] kind = <<"FEDCONFIRM">> -> Some([kind |-> "Confirm"])
       [] kind = <<"FEDCHANNELS">> -> Some([kind |-> "FedChannels", channels |-> args])
       [] kind = <<"FEDNEW">> ->
            IF Contains(args, SP) THEN None ELSE Some([kind |-> "New", channel |-> args])
       [] kind = <<"FEDJOIN">> ->
            LET t == two(args)
            IN IF t = None THEN None
               ELSE Some([kind |-> "FedJoin", user |-> t[1][1], channel |-> t[1][2]])
       [] kind = <<"FEDSAY">> ->
            LET a == SplitOnce(args, SP)
            IN IF a = None THEN None ELSE
               LET b == SplitOnce(a[1][2], SP)
               IN IF b = None THEN None
                  ELSE Some([kind |-> "FedSay", user |-> a[1][1], channel |-> b[1][1],
                             msg |-> b[1][2]])
       [] kind = <<"FEDRECV">> ->
            LET a == SplitOnce(args, SP)
            IN IF a = None THEN None ELSE
               LET b == SplitOnce(a[1][2], SP)
               IN IF b = None THEN None ELSE
                  LET c == SplitOnce(b[1][2], SP)
                  IN IF c = None THEN None
                     ELSE Some([kind |-> "Recv", to_user |-> a[1][1], from_user |-> b[1][1],
                                channel |-> c[1][1], msg |-> c[1][2]])
       [] kind = <<"FEDRESULT">> -> parse_fedresult(args)
       [] OTHER -> None

\* fn parse: a client request when the line parses as one, else a server request
parse(input) ==
  LET c == parse_client(input)
  IN IF c # None THEN Some([side |-> "Client", req |-> c[1]])
     ELSE LET s == parse_server(input)
          IN IF s # None THEN Some([side |-> "Server", req |-> s[1]]) ELSE None

(***************************************************************************)
(* Topology.  Instance "A" runs client sessions c1, c2, two accepted peer  *)
(* connections p1, p2 whose far end is some other federation speaker, and  *)
(* the connection d it dials at startup to instance "B"; b is the task B   *)
(* spawns when it accepts d's connection, cB a client session of B.        *)
(***************************************************************************)
Inst == {"A", "B"}
Tasks == {"c1", "c2", "p1", "p2", "d", "b", "cB"}

inst(t) == IF t \in {"b", "cB"} THEN "B" ELSE "A"

\* TcpListener::bind(("127.0.0.1", server.port))
ListenAddr(i) == <<"ip", ":", IF i = "A" THEN "pA" ELSE "pB">>

\* lines.get_ref().get_ref().local_addr(): the near-side address of the socket,
\* the listener's address for an accepted socket, an ephemeral one for a dialed one
local_addr(t) == IF t = "d" THEN <<"ip", ":", "pE">> ELSE ListenAddr(inst(t))

\* the task at the far end of t's socket; None when the far end is not an
\* instance of this program
link(t) == IF t = "d" THEN Some("b") ELSE IF t = "b" THEN Some("d") ELSE None

Hosts == {"ip"}
Ports == {"pA", "pB", "pE", "pX"}

\* str::parse::<SocketAddr>()
ParseAddr(s) ==
  IF Len(s) = 3 /\ s[1] \in Hosts /\ s[2] = ":" /\ s[3] \in Ports THEN Some(s) ELSE None

VARIABLES
  users,       \* Server.users per instance: username -> password
  user_conns,  \* Server.user_conns per instance: username -> client task
  channels,    \* Server.channels per instance: name -> (Channel.users: username -> User)
  servers,     \* Server.servers per instance: SocketAddr -> RemoteServer
  phase,       \* per task: where its connection task is
  username,    \* ClientConnection.username
  queue,       \* the mpsc queue behind ClientConnection.channel / ServerConnection.channel
  callbacks,   \* ServerConnection.callbacks: <<user, response>> -> client task
  sockOut,     \* per task: the lines it has written to its socket
  rd,          \* per task: how many lines of the far end's sockOut it has read
  pc,          \* per task: "select", or the lock region its handler is about to enter
  req,         \* per task: the request of the handler in progress
  fedreg,      \* history: the peer tasks that have run fed_out or fed_confirm
  pending,     \* history, per peer task: for each FEDJOIN / FEDSAY it has written for a
               \* client and not yet seen answered, <<callback key, client task>>
  hist,        \* history, per task: the requests it has handled to the end, each with
               \* the identity of the session then and the line written in reply,
               \* and the lines it has dropped
  budget,      \* lines the outside world may still send
  supervisor,  \* where fn main of instance A is: "serving" in its accept loop,
               \* "waiting" for its tasks after the interrupt, or "terminated"
  locks        \* per task: the lock operations its handler has still to do, and the
               \* RwLock guards it holds

vars == <<users, user_conns, channels, servers, phase, username, queue, callbacks,
          sockOut, rd, pc, req, fedreg, pending, hist, budget, supervisor, locks>>

DeadPhases == {"panicked", "exited"}

\* the part of the state a handler may change, as one record
St ==
  [users |-> users, channels |-> channels, servers |-> servers, phase |-> phase,
   username |-> username, queue |-> queue, callbacks |-> callbacks, sockOut |-> sockOut,
   pc |-> pc, req |-> req, fedreg |-> fedreg, pending |-> pending, hist |-> hist]

Apply(s) ==
  /\ users' = s.users
  /\ channels' = s.channels
  /\ servers' = s.servers
  /\ phase' = s.phase
  /\ username' = s.username
  /\ queue' = s.queue
  /\ callbacks' = s.callbacks
  /\ sockOut' = s.sockOut
  /\ pc' = s.pc
  /\ req' = s.req
  /\ fedreg' = s.fedreg
  /\ hist' = s.hist
  /\ pending' = s.pending
  /\ user_conns' = user_conns
  /\ supervisor' = supervisor
  /\ locks' = locks

\* HashMap::insert: the value under an existing key is replaced
Insert(m, k, v) == (k :> v) @@ m
\* HashMap::remove
Remove(m, k) == [j \in (DOMAIN m) \ {k} |-> m[j]]

\* the sequences that enumerate the set S once each: the orders in which a
\* HashMap of these keys may be iterated
Perms(S) ==
  {f \in [1..Cardinality(S) -> S] : \A a \in S : \E j \in 1..Cardinality(S) : f[j] = a}

\* a panic!() or a failed .unwrap(): the task unwinds and its queue's receiver is dropped
Panic(s, t) == [s EXCEPT !.phase[t] = "panicked", !.pc[t] = "select", !.req[t] = None]

Panicked(s, t) == s.phase[t] = "panicked"

\* writer.write_all(line).await.unwrap(), by a task that has not panicked before
Write(s, t, line) ==
  IF Panicked(s, t) THEN s ELSE [s EXCEPT !.sockOut[t] = Append(@, line)]

\* the handler has returned and what it returned is written: the task is back
\* at its select!
Finish(s, t, reply) ==
  IF Panicked(s, t) THEN s
  ELSE [s EXCEPT !.pc[t] = "select", !.req[t] = None,
                 !.hist[t] = Append(@, [req |-> s.req[t][1], user |-> s.username[t],
                                        reply |-> reply])]

\* process_server_request after a handler that returns None
Done(s, t) == Finish(s, t, None)

\* process_client_request / process_server_request writing what the handler returned
Reply(s, t, line) == Finish(Write(s, t, line), t, Some(line))

\* the handler stops at the end of a lock region; it goes on at `at`
Pause(s, t, at, r) == [s EXCEPT !.pc[t] = at, !.req[t] = Some(r)]

\* UnboundedSender::send(item).unwrap() by task t on the queue of task target:
\* an error, hence a panic, when the receiver is gone
Send(s, t, target, item) ==
  IF Panicked(s, t) THEN s
  ELSE IF s.phase[target] \in DeadPhases THEN Panic(s, t)
  ELSE [s EXCEPT !.queue[target] = Append(@, item)]

\* the sends of a loop, in order: items is a sequence of <<target, item>>
RECURSIVE SendAll(_, _, _)
SendAll(s, t, items) ==
  IF items = <<>> THEN s
  ELSE SendAll(Send(s, t, items[1][1], items[1][2]), t, Tail(items))

Status(ok) == IF ok THEN <<"1">> ELSE <<"0">>

Init0 ==
  /\ users = [i \in Inst |-> <<>>]
  /\ user_conns = [i \in Inst |-> <<>>]
  /\ channels = [i \in Inst |-> <<>>]
  /\ servers = [i \in Inst |-> <<>>]
  /\ phase = [t \in Tasks |-> IF t = "d" THEN "unconnected" ELSE "new"]
  /\ username = [t \in Tasks |-> None]
  /\ queue = [t \in Tasks |-> <<>>]
  /\ callbacks = [t \in Tasks |-> <<>>]
  /\ sockOut = [t \in Tasks |-> <<>>]
  /\ rd = [t \in Tasks |-> 0]
  /\ pc = [t \in Tasks |-> "select"]
  /\ req = [t \in Tasks |-> None]
  /\ fedreg = {}
  /\ hist = [t \in Tasks |-> <<>>]
  /\ pending = [t \in Tasks |-> <<>>]
  /\ supervisor = "serving"
  /\ locks = [t \in Tasks |-> [todo |-> <<>>, held |-> {}]]

(***************************************************************************)
(* The client handlers.  Each is a function from the state to the set of   *)
(* states it may leave: a handler whose outcome depends on the iteration   *)
(* order of a HashMap has one outcome per order.  A handler that releases  *)
(* a lock and takes another is one operator per lock region.               *)
(***************************************************************************)

\* fn register: the read block
register_read(s, t, r) ==
  IF r.username \in DOMAIN s.users[inst(t)]
  THEN {Reply(s, t, <<"RESULT", SP, "REGISTER", SP, "0">>)}
  ELSE {Pause(s, t, "register_write", r)}

\* fn register: the write block and the reply
register_write(s, t, r) ==
  {Reply([s EXCEPT !.users[inst(t)] = Insert(@, r.username, r.password)], t,
         <<"RESULT", SP, "REGISTER", SP, "1">>)}

\* fn login forgetting the bound identity when the password does not match
login_clears(s, t, r) ==
  LET us == s.users[inst(t)]
  IN IF r.username \in DOMAIN us /\ us[r.username] = r.password
     THEN {Reply([s EXCEPT !.username[t] = Some(r.username)], t,
                 <<"RESULT", SP, "LOGIN", SP, "1">>)}
     ELSE {Reply([s EXCEPT !.username[t] = None], t, <<"RESULT", SP, "LOGIN", SP, "0">>)}

\* fn login
login(s, t, r) ==
  LET us == s.users[inst(t)]
  IN IF r.username \in DOMAIN us /\ us[r.username] = r.password
     THEN {Reply([s EXCEPT !.username[t] = Some(r.username)], t,
                 <<"RESULT", SP, "LOGIN", SP, "1">>)}
     ELSE {Reply(s, t, <<"RESULT", SP, "LOGIN", SP, "0">>)}

\* the reply of fn join: the request's channel argument as given, and the status
JoinReply(channel, ok) == <<"RESULT", SP, "JOIN", SP>> \o channel \o <<SP>> \o Status(ok)

\* fn join, remote arm of _join: the callback-arming message for the peer session
join_remote(s, t, un, ch, remote) ==
  LET addr == ParseAddr(remote)
      i == inst(t)
  IN IF addr = None \/ addr[1] \notin DOMAIN s.servers[i] THEN s
     ELSE Send(s, t, s.servers[i][addr[1]].channel,
               [tag |-> "CallbackMessage",
                channel |-> t,
                user |-> un,
                response |-> <<"Join", ch>>,
                message |-> <<"FEDJOIN", SP>> \o un \o <<"@">> \o local_addr(t)
                              \o <<SP>> \o ch])

\* fn join up to the end of the read block of _join; the remote arm ends in
\* None, so the reply written for it carries status 0
join_read(s, t, r) ==
  LET i == inst(t)
      so == SplitOnce(r.channel, ":")
  IN IF s.username[t] = None THEN {Reply(s, t, JoinReply(r.channel, FALSE))}
     ELSE IF so # None
     THEN {Reply(join_remote(s, t, s.username[t][1], so[1][1], so[1][2]), t,
                 JoinReply(r.channel, FALSE))}
     ELSE IF r.channel \notin DOMAIN s.channels[i]
     THEN {Reply(s, t, JoinReply(r.channel, FALSE))}
     ELSE IF s.username[t][1] \in DOMAIN s.channels[i][r.channel]
     THEN {Reply(s, t, JoinReply(r.channel, FALSE))}
     ELSE {Pause(s, t, "join_write", r)}

\* fn join: the write block of _join and the reply
join_write(s, t, r) ==
  {Reply([s EXCEPT !.channels[inst(t)][r.channel] =
                      Insert(@, s.username[t][1], [kind |-> "Local", ep |-> t])],
         t, JoinReply(r.channel, TRUE))}

CreateReply(channel, ok) == <<"RESULT", SP, "CREATE", SP>> \o channel \o <<SP>> \o Status(ok)

\* fn create: the read block
create_read(s, t, r) ==
  IF r.channel \in DOMAIN s.channels[inst(t)]
  THEN {Reply(s, t, CreateReply(r.channel, FALSE))}
  ELSE {Pause(s, t, "create_write", r)}

\* fn create: the write block, an empty Channel under the name
create_write(s, t, r) ==
  {Pause([s EXCEPT !.channels[inst(t)] = Insert(@, r.channel, <<>>)], t, "create_alert", r)}

\* fn create: the alert block, one FEDNEW per value of Server.servers, and the reply
create_alert(s, t, r) ==
  LET sv == s.servers[inst(t)]
      alert == [tag |-> "Message", text |-> <<"FEDNEW", SP>> \o r.channel]
  IN {Reply(SendAll(s, t, [k \in 1..Len(order) |-> <<sv[order[k]].channel, alert>>]),
            t, CreateReply(r.channel, TRUE)) : order \in Perms(DOMAIN sv)}

\* _say with the FEDRECV record naming the speaker where the recipient belongs
_say_names_speaker(s, t, i, un, channel_name, msg) ==
  IF channel_name \notin DOMAIN s.channels[i] THEN {<<s, FALSE>>}
  ELSE LET us == s.channels[i][channel_name]
           local_message == <<"RECV", SP>> \o un \o <<SP>> \o channel_name \o <<SP>> \o msg
           remote_message(name) ==
             [tag |-> "Message",
              text |-> <<"FEDRECV", SP>> \o un \o <<SP>> \o un \o <<SP>> \o channel_name
                         \o <<SP>> \o msg]
           item(name) ==
             IF us[name].kind = "Local" THEN <<us[name].ep, local_message>>
             ELSE <<us[name].ep, remote_message(name)>>
       IN IF un \notin DOMAIN us THEN {<<s, FALSE>>}
          ELSE {<<SendAll(s, t, [k \in 1..Len(order) |-> item(order[k])]), TRUE>> :
                  order \in Perms(DOMAIN us)}

\* fn _say: the set of <<state, status>> it may leave
_say(s, t, i, un, channel_name, msg) ==
  IF channel_name \notin DOMAIN s.channels[i] THEN {<<s, FALSE>>}
  ELSE LET us == s.channels[i][channel_name]
           local_message == <<"RECV", SP>> \o un \o <<SP>> \o channel_name \o <<SP>> \o msg
           remote_message(name) ==
             [tag |-> "Message",
              text |-> <<"FEDRECV", SP>> \o name \o <<SP>> \o un \o <<SP>> \o channel_name
                         \o <<SP>> \o msg]
           item(name) ==
             IF us[name].kind = "Local" THEN <<us[name].ep, local_message>>
             ELSE <<us[name].ep, remote_message(name)>>
       IN IF un \notin DOMAIN us THEN {<<s, FALSE>>}
          ELSE {<<SendAll(s, t, [k \in 1..Len(order) |-> item(order[k])]), TRUE>> :
                  order \in Perms(DOMAIN us)}

\* fn say letting a logged-in session that is not a member speak
say_nonmember(s, t, r) ==
  LET line(ok) == <<"RESULT", SP, "SAY", SP>> \o r.channel \o <<SP>> \o Status(ok)
      i == inst(t)
  IN IF s.username[t] = None \/ r.channel \notin DOMAIN s.channels[i]
     THEN {Reply(s, t, line(FALSE))}
     ELSE LET us == s.channels[i][r.channel]
              item(name) ==
                IF us[name].kind = "Local"
                THEN <<us[name].ep, <<"RECV", SP>> \o s.username[t][1] \o <<SP>> \o r.channel
                                     \o <<SP>> \o r.message>>
                ELSE <<us[name].ep,
                       [tag |-> "Message",
                        text |-> <<"FEDRECV", SP>> \o name \o <<SP>> \o s.username[t][1]
                                   \o <<SP>> \o r.channel \o <<SP>> \o r.message]>>
          IN {Reply(SendAll(s, t, [k \in 1..Len(order) |-> item(order[k])]), t, line(TRUE)) :
                order \in Perms(DOMAIN us)}

\* fn say
say(s, t, r) ==
  LET line(ok) == <<"RESULT", SP, "SAY", SP>> \o r.channel \o <<SP>> \o Status(ok)
  IN IF s.username[t] = None THEN {Reply(s, t, line(FALSE))}
     ELSE {Reply(o[1], t, line(o[2])) :
             o \in _say(s, t, inst(t), s.username[t][1], r.channel, r.message)}

\* fn list_channels appending to the string head, for one iteration order of
\* Server.channels: " name," per channel, the last character popped when
\* there is a channel
RECURSIVE ListBody(_)
ListBody(order) ==
  IF order = <<>> THEN <<>> ELSE <<SP>> \o order[1] \o <<",">> \o ListBody(Tail(order))

list_channels(head, order) ==
  LET body == ListBody(order)
  IN IF order # <<>> THEN head \o SubSeq(body, 1, Len(body) - 1) ELSE head

\* fn channels
channels_req(s, t) ==
  {Reply(s, t, list_channels(<<"RESULT", SP, "CHANNELS">>, order)) :
     order \in Perms(DOMAIN s.channels[inst(t)])}

\* process_client_request: the handler of a request, up to its first lock release
ClientRequest(s, t, r) ==
  CASE r.kind = "Register" -> register_read(s, t, r)
    [] r.kind = "Login" -> login(s, t, r)
    [] r.kind = "Join" -> join_read(s, t, r)
    [] r.kind = "Create" -> create_read(s, t, r)
    [] r.kind = "Say" -> say(s, t, r)
    [] r.kind = "Channels" -> channels_req(s, t)

(***************************************************************************)
(* The federation handlers.                                                *)
(***************************************************************************)

\* the RemoteServer both fed_out and fed_confirm insert under conn.server_addr
NewRemote(t) == [channel |-> t, channels |-> {}]

\* fn fed_out
fed_out(s, t) ==
  {Reply([s EXCEPT !.servers[inst(t)] = Insert(@, local_addr(t), NewRemote(t)),
                   !.fedreg = @ \cup {t}],
         t, <<"FEDCONFIRM">>)}

\* fn fed_confirm: the insert under the write lock of Server.servers
fed_confirm(s, t, r) ==
  {Pause([s EXCEPT !.servers[inst(t)] = Insert(@, local_addr(t), NewRemote(t)),
                   !.fedreg = @ \cup {t}],
         t, "fed_confirm_list", r)}

\* fn fed_confirm: list_channels under the read lock of Server.channels, and the reply
fed_confirm_list(s, t, r) ==
  {Reply(s, t, list_channels(<<"FEDCHANNELS">>, order)) :
     order \in Perms(DOMAIN s.channels[inst(t)])}

\* the names fn fed_channels inserts: every piece of the argument split on ", "
ChannelList(arg) == LET p == SplitCommaSpace(arg) IN {p[k] : k \in 1..Len(p)}

\* the body shared by fed_channels and fed_new: the RemoteServer under
\* conn.server_addr gains the names; panic!() when there is none
Advertise(s, t, names) ==
  LET i == inst(t)
      a == local_addr(t)
  IN IF a \notin DOMAIN s.servers[i] THEN Panic(s, t)
     ELSE Done([s EXCEPT !.servers[i][a].channels = @ \cup names], t)

\* fn fed_channels
fed_channels(s, t, r) == {Advertise(s, t, ChannelList(r.channels))}

\* fn fed_new
fed_new(s, t, r) == {Advertise(s, t, {r.channel})}

FedJoinReply(user, channel, ok) ==
  <<"FEDRESULT", SP>> \o user \o <<SP, "JOIN", SP>> \o channel \o <<SP>> \o Status(ok)

\* fn fed_join: _join up to the end of its read block
fed_join_read(s, t, r) ==
  LET i == inst(t)
  IN IF r.channel \notin DOMAIN s.channels[i]
     THEN {Reply(s, t, FedJoinReply(r.user, r.channel, FALSE))}
     ELSE IF r.user \in DOMAIN s.channels[i][r.channel]
     THEN {Reply(s, t, FedJoinReply(r.user, r.channel, FALSE))}
     ELSE {Pause(s, t, "fed_join_write", r)}

\* fn fed_join: the write block of _join and the reply
fed_join_write(s, t, r) ==
  {Reply([s EXCEPT !.channels[inst(t)][r.channel] =
                      Insert(@, r.user, [kind |-> "Remote", ep |-> t])],
         t, FedJoinReply(r.user, r.channel, TRUE))}

\* fn fed_say: it calls _say(server, user, user, channel), so the channel
\* looked up is the one named like the user and the text sent is the channel name
fed_say(s, t, r) ==
  {Reply(o[1], t,
         <<"FEDRESULT", SP>> \o r.user \o <<SP, "SAY", SP>> \o r.channel \o <<SP>>
           \o Status(o[2]) \o <<SP>> \o r.msg) :
     o \in _say(s, t, inst(t), r.user, r.user, r.channel)}

\* fn fed_recv: the only reader of Server.user_conns
fed_recv(s, t, r) ==
  LET uc == user_conns[inst(t)]
  IN IF r.to_user \in DOMAIN uc
     THEN {Done(Send(s, t, uc[r.to_user],
                     <<"RECV", SP>> \o r.from_user \o <<SP>> \o r.channel \o <<SP>> \o r.msg), t)}
     ELSE {Done(s, t)}

\* history: a FEDRESULT for key has been handled, what was pending under key is not
RECURSIVE WithoutKey(_, _)
WithoutKey(q, key) ==
  IF q = <<>> THEN <<>>
  ELSE (IF Head(q)[1] = key THEN <<>> ELSE <<Head(q)>>) \o WithoutKey(Tail(q), key)

Answered(s, t, key) == [s EXCEPT !.pending[t] = WithoutKey(@, key)]

\* PopCallback leaving the entry in the table
PopCallback_keep(s, t, key, line) ==
  IF key \in DOMAIN s.callbacks[t]
  THEN Done(Send(s, t, s.callbacks[t][key], line), t)
  ELSE Done(s, t)

\* the body shared by fed_result_join and fed_result_say: the callback under
\* key is removed and its client gets the line
PopCallback(s, t, key, line) ==
  IF key \in DOMAIN s.callbacks[t]
  THEN Done(Send([s EXCEPT !.callbacks[t] = Remove(@, key)], t, s.callbacks[t][key], line), t)
  ELSE Done(s, t)

\* fn fed_result_join
fed_result_join(s, t, r) ==
  LET key == <<r.user, <<"Join", r.channel>>>>
  IN {PopCallback(Answered(s, t, key), t, key,
                  <<"RESULT", SP, "JOIN", SP>> \o r.channel \o <<SP>> \o r.status)}

\* fn fed_result_say
fed_result_say(s, t, r) ==
  LET key == <<r.user, <<"Say", r.channel, r.msg>>>>
  IN {PopCallback(Answered(s, t, key), t, key,
                  <<"RESULT", SP, "SAY", SP>> \o r.channel \o <<SP>> \o r.msg \o <<SP>>
                    \o r.status)}

\* process_server_request: the handler of a request, up to its first lock release
ServerRequest(s, t, r) ==
  CASE r.kind = "Out" -> fed_out(s, t)
    [] r.kind = "Confirm" -> fed_confirm(s, t, r)
    [] r.kind = "FedChannels" -> fed_channels(s, t, r)
    [] r.kind = "New" -> fed_new(s, t, r)
    [] r.kind = "FedJoin" -> fed_join_read(s, t, r)
    [] r.kind = "FedSay" -> fed_say(s, t, r)
    [] r.kind = "Recv" -> fed_recv(s, t, r)
    [] r.kind = "ResultJoin" -> fed_result_join(s, t, r)
    [] r.kind = "ResultSay" -> fed_result_say(s, t, r)

(***************************************************************************)
(* The connection tasks.                                                   *)
(***************************************************************************)

\* what a task does with a line it has read: fn process classifies the first
\* line of a connection (a line that parses as neither kind is a panic!());
\* the loops of process_client and process_server skip a line their parser
\* rejects
\* Drop ending the session
Drop_panic(s, t, line) ==
  Panic([s EXCEPT !.hist[t] = Append(@, [req |-> [kind |-> "Dropped", line |-> line],
                                         user |-> s.username[t], reply |-> None])], t)

\* `None => continue` in the loop of a session: the line is consumed and the
\* task is back at its select!; the history keeps the line
Drop(s, t, line) ==
  [s EXCEPT !.hist[t] = Append(@, [req |-> [kind |-> "Dropped", line |-> line],
                                   user |-> s.username[t], reply |-> None])]

Dispatch(s, t, line) ==
  CASE s.phase[t] = "new" ->
         LET q == parse(line)
         IN IF q = None THEN {Panic(s, t)}
            ELSE IF q[1].side = "Client"
            THEN ClientRequest([s EXCEPT !.phase[t] = "client", !.req[t] = Some(q[1].req)],
                               t, q[1].req)
            ELSE ServerRequest([s EXCEPT !.phase[t] = "server", !.req[t] = Some(q[1].req)],
                               t, q[1].req)
    [] s.phase[t] = "client" ->
         LET q == parse_client(line)
         IN IF q = None THEN {Drop(s, t, line)} ELSE ClientRequest([s EXCEPT !.req[t] = q], t, q[1])
    [] s.phase[t] = "server" ->
         LET q == parse_server(line)
         IN IF q = None THEN {Drop(s, t, line)} ELSE ServerRequest([s EXCEPT !.req[t] = q], t, q[1])

Reading(t) == pc[t] = "select" /\ phase[t] \in {"new", "client", "server"}

\* lines.next_line() on a socket whose far end is outside the model: the line
\* is any of the lines the outside world may send
EnvLine(t, line) ==
  /\ link(t) = None
  /\ Reading(t)
  /\ budget > 0
  /\ budget' = budget - 1
  /\ rd' = rd
  /\ \E o \in Dispatch(St, t, line) : Apply(o)

\* lines.next_line() on a socket between two instances: the next line the far
\* end has written
LinkLine(t) ==
  /\ link(t) # None
  /\ Reading(t)
  /\ rd[t] < Len(sockOut[link(t)[1]])
  /\ rd' = [rd EXCEPT ![t] = @ + 1]
  /\ budget' = budget
  /\ \E o \in Dispatch(St, t, sockOut[link(t)[1]][rd[t] + 1]) : Apply(o)

\* lines.next_line() at the end of the stream while fn process waits for the
\* first line: Ok(None), and the second unwrap panics
LinkClosed(t) ==
  /\ link(t) # None
  /\ phase[t] = "new"
  /\ phase[link(t)[1]] \in DeadPhases
  /\ rd[t] = Len(sockOut[link(t)[1]])
  /\ Apply(Panic(St, t))
  /\ UNCHANGED <<rd, budget>>

\* lines.next_line().await.unwrap() on a socket that fails (a reset connection):
\* Err, and the unwrap panics; the session ends and its queue's receiver is dropped
ReadError(t) ==
  /\ Reading(t)
  /\ phase[t] \in {"client", "server"}
  /\ Apply(Panic(St, t))
  /\ UNCHANGED <<rd, budget>>

\* fn main: the task spawned for a line of the peers file connects and writes
\* FEDERATEOUT before it enters fn process
Dial(t) ==
  /\ phase[t] = "unconnected"
  /\ Apply(Write([St EXCEPT !.phase[t] = "new"], t, <<"FEDERATEOUT">>))
  /\ UNCHANGED <<rd, budget>>

\* the tasks of instance i that hold Server.channels.read() across a pause
ChannelsReaders(i) == {u \in Tasks : inst(u) = i /\ pc[u] \in {"join_write", "fed_join_write"}}

\* a handler going on with its next lock region
Resume(t, at, outcomes) ==
  /\ pc[t] = at
  /\ \E o \in outcomes : Apply(o)
  /\ UNCHANGED <<rd, budget>>

RegisterWrite(t) == Resume(t, "register_write", register_write(St, t, req[t][1]))

JoinWrite(t) == Resume(t, "join_write", join_write(St, t, req[t][1]))

\* Server.channels.write() waits until no task holds the read lock
CreateWrite(t) ==
  /\ ChannelsReaders(inst(t)) = {}
  /\ Resume(t, "create_write", create_write(St, t, req[t][1]))

CreateAlert(t) == Resume(t, "create_alert", create_alert(St, t, req[t][1]))

FedConfirmList(t) == Resume(t, "fed_confirm_list", fed_confirm_list(St, t, req[t][1]))

FedJoinWrite(t) == Resume(t, "fed_join_write", fed_join_write(St, t, req[t][1]))

\* the receiver.recv() arm of process_server
deliver_server(s, t, msg) ==
  IF msg.tag = "Message" THEN Write(s, t, msg.text)
  ELSE LET w == Write(s, t, msg.message)
       IN [w EXCEPT !.callbacks[t] = Insert(@, <<msg.user, msg.response>>, msg.channel),
                    !.pending[t] = Append(@, <<<<msg.user, msg.response>>, msg.channel>>)]

\* the receiver.recv() arm of process_client
deliver_client(s, t, msg) == Write(s, t, msg)

\* a select! taking the newest item of the queue instead of the oldest
Deliver_newest(t) ==
  /\ pc[t] = "select"
  /\ phase[t] \in {"client", "server"}
  /\ queue[t] # <<>>
  /\ LET n == Len(queue[t])
         s == [St EXCEPT !.queue[t] = SubSeq(@, 1, n - 1)]
     IN Apply(IF phase[t] = "client" THEN deliver_client(s, t, queue[t][n])
              ELSE deliver_server(s, t, queue[t][n]))
  /\ UNCHANGED <<rd, budget>>

\* the select! of a session takes the next item of its queue
Deliver(t) ==
  /\ pc[t] = "select"
  /\ phase[t] \in {"client", "server"}
  /\ queue[t] # <<>>
  /\ LET s == [St EXCEPT !.queue[t] = Tail(@)]
     IN Apply(IF phase[t] = "client" THEN deliver_client(s, t, Head(queue[t]))
              ELSE deliver_server(s, t, Head(queue[t])))
  /\ UNCHANGED <<rd, budget>>

(***************************************************************************)
(* Lines of the wire protocol, as the outside world writes them.           *)
(***************************************************************************)
LRegister(u, p) == <<"REGISTER", SP, u, SP, p>>
LLogin(u, p) == <<"LOGIN", SP, u, SP, p>>
LJoin(target) == <<"JOIN", SP>> \o target
LCreate(c) == <<"CREATE", SP, c>>
LSay(c, m) == <<"SAY", SP, c, SP>> \o m

(***************************************************************************)
(* Client sessions only: two concurrent client sessions of one instance.   *)
(***************************************************************************)
MaxClientLines == 6

ClientLines ==
  {LRegister("alice", "pw"), LLogin("alice", "pw"), LCreate("room"), LJoin(<<"room">>)}

InitClients == Init0 /\ budget = MaxClientLines

NextClients ==
  \E t \in {"c1", "c2"} :
    \/ \E l \in ClientLines : EnvLine(t, l)
    \/ RegisterWrite(t)
    \/ JoinWrite(t)
    \/ CreateWrite(t)
    \/ CreateAlert(t)

SpecClients == InitClients /\ [][NextClients]_vars

(***************************************************************************)
(* CREATE with peers connected: two client sessions and two accepted peer  *)
(* connections of one instance.                                            *)
(***************************************************************************)
LFedOut == <<"FEDOUT">>
LFedNew(c) == <<"FEDNEW", SP, c>>

MaxCreateLines == 4

CreateClientLines == {LCreate("room"), LCreate("lobby")}

CreatePeerLines == {LFedOut, LFedNew("hall")}

InitCreate == Init0 /\ budget = MaxCreateLines

NextCreate ==
  \/ \E t \in {"c1", "c2"} :
       \/ \E l \in CreateClientLines : EnvLine(t, l)
       \/ CreateWrite(t)
       \/ CreateAlert(t)
  \/ \E t \in {"p1", "p2"} :
       \/ \E l \in CreatePeerLines : EnvLine(t, l)
       \/ Deliver(t)

SpecCreate == InitCreate /\ [][NextCreate]_vars

(***************************************************************************)
(* SAY in a channel with local and remote members: a client session and an *)
(* accepted peer connection of one instance.                               *)
(***************************************************************************)
LFedJoin(u, c) == <<"FEDJOIN", SP>> \o u \o <<SP, c>>

MaxSayLines == 6

SayClientLines ==
  {LRegister("alice", "pw"), LLogin("alice", "pw"), LCreate("room"), LJoin(<<"room">>),
   LSay("room", <<"hi">>)}

SayPeerLines == {LFedJoin(<<"bob">>, "room"), LFedJoin(<<"carol">>, "room")}

InitSay == Init0 /\ budget = MaxSayLines

NextSay ==
  \/ \E l \in SayClientLines : EnvLine("c1", l)
  \/ \E l \in SayPeerLines : EnvLine("p1", l)
  \/ \E t \in {"c1", "p1"} :
       \/ RegisterWrite(t)
       \/ JoinWrite(t)
       \/ CreateWrite(t)
       \/ CreateAlert(t)
       \/ FedJoinWrite(t)
       \/ Deliver(t)

SpecSay == InitSay /\ [][NextSay]_vars

(***************************************************************************)
(* JOIN of a channel on a peer: two client sessions and an accepted peer   *)
(* connection of one instance.  The peer is registered under the           *)
(* instance's own listening address, the local address of its socket.      *)
(***************************************************************************)
LFedResultJoin(u, c, st) == <<"FEDRESULT", SP>> \o u \o <<SP, "JOIN", SP, c, SP, st>>

MaxCallbackLines == 7

CallbackClientLines ==
  {LRegister("alice", "pw"), LLogin("alice", "pw"),
   LJoin(<<"room", ":">> \o ListenAddr("A")), LJoin(<<"room", ":", "ip", ":", "pX">>)}

CallbackOtherLines == {LLogin("alice", "pw"), LJoin(<<"room", ":">> \o ListenAddr("A"))}

CallbackPeerLines == {LFedOut, LFedResultJoin(<<"alice">>, "room", "1")}

InitCallback == Init0 /\ budget = MaxCallbackLines

NextCallback ==
  \/ \E l \in CallbackClientLines : EnvLine("c1", l)
  \/ \E l \in CallbackOtherLines : EnvLine("c2", l)
  \/ \E l \in CallbackPeerLines : EnvLine("p1", l)
  \/ \E t \in {"c1", "c2", "p1"} :
       \/ RegisterWrite(t)
       \/ Deliver(t)

SpecCallback == InitCallback /\ [][NextCallback]_vars

(***************************************************************************)
(* Records arriving on a peer link: a client session and an accepted peer  *)
(* connection of one instance.                                             *)
(***************************************************************************)
LFedSay(u, c, m) == <<"FEDSAY", SP>> \o u \o <<SP, c, SP>> \o m
LFedRecv(to, from, c, m) == <<"FEDRECV", SP>> \o to \o <<SP>> \o from \o <<SP, c, SP>> \o m

MaxPeerInLines == 4

PeerInClientLines == {LRegister("alice", "pw"), LLogin("alice", "pw"), LCreate("room")}

PeerInPeerLines ==
  {LFedJoin(<<"bob">>, "room"), LFedSay(<<"bob">>, "room", <<"hi">>),
   LFedRecv(<<"alice">>, <<"bob">>, "room", <<"hi">>)}

InitPeerIn == Init0 /\ budget = MaxPeerInLines

NextPeerIn ==
  \/ \E l \in PeerInClientLines : EnvLine("c1", l)
  \/ \E l \in PeerInPeerLines : EnvLine("p1", l)
  \/ \E t \in {"c1", "p1"} :
       \/ RegisterWrite(t)
       \/ CreateWrite(t)
       \/ CreateAlert(t)
       \/ FedJoinWrite(t)

SpecPeerIn == InitPeerIn /\ [][NextPeerIn]_vars

(***************************************************************************)
(* Two instances: A dials B at startup; alice is a client of A, and a      *)
(* client of B creates the channel.                                        *)
(***************************************************************************)
MaxFedLines == 5

FedLinesA ==
  {LRegister("alice", "pw"), LLogin("alice", "pw"), LJoin(<<"room", ":">> \o ListenAddr("B"))}

FedLinesB == {LCreate("room")}

InitFed == Init0 /\ budget = MaxFedLines

NextFed ==
  \/ Dial("d")
  \/ \E t \in {"d", "b"} :
       \/ LinkLine(t)
       \/ LinkClosed(t)
  \/ \E l \in FedLinesA : EnvLine("c1", l)
  \/ \E l \in FedLinesB : EnvLine("cB", l)
  \/ \E t \in {"c1", "cB"} :
       \/ RegisterWrite(t)
       \/ CreateWrite(t)
       \/ CreateAlert(t)

SpecFed == InitFed /\ [][NextFed]_vars

(***************************************************************************)
(* The writes of a session, one await at a time.  writer.write_all(..)     *)
(* .await is a suspension point of the session task inside the body of the *)
(* select! arm it has taken: the bytes of the record go out while other    *)
(* tasks run, and the task polls no other arm until the body has ended.    *)
(* Two client sessions of one instance.                                    *)
(***************************************************************************)

\* the outcome o of a step of t with the record it has written held back: the
\* task is inside write_all with that record
WriteHeld(o, t) ==
  IF o.sockOut[t] = sockOut[t] THEN o
  ELSE [o EXCEPT !.sockOut[t] = sockOut[t],
                 !.pc[t] = "write_all",
                 !.req[t] = Some([kind |-> "WriteAll", line |-> o.sockOut[t][Len(o.sockOut[t])]])]

\* the next_line arm up to the write_all of the reply, or to the end of the
\* handler's first lock region
ReadW(t, line) ==
  /\ link(t) = None
  /\ Reading(t)
  /\ budget > 0
  /\ budget' = budget - 1
  /\ rd' = rd
  /\ \E o \in Dispatch(St, t, line) : Apply(WriteHeld(o, t))

\* the handler in progress going on with its next lock region, up to the
\* write_all of the reply
HandlerW(t) ==
  /\ pc[t] \in {"register_write", "join_write", "create_write", "create_alert"}
  /\ pc[t] = "create_write" => ChannelsReaders(inst(t)) = {}
  /\ LET r == req[t][1]
         outcomes == CASE pc[t] = "register_write" -> register_write(St, t, r)
                       [] pc[t] = "join_write" -> join_write(St, t, r)
                       [] pc[t] = "create_write" -> create_write(St, t, r)
                       [] pc[t] = "create_alert" -> create_alert(St, t, r)
     IN \E o \in outcomes : Apply(WriteHeld(o, t))
  /\ UNCHANGED <<rd, budget>>

\* RecvW polling the queue whatever the task is doing
RecvW_any(t) ==
  /\ phase[t] = "client"
  /\ queue[t] # <<>>
  /\ Apply(WriteHeld(deliver_client([St EXCEPT !.queue[t] = Tail(@)], t, Head(queue[t])), t))
  /\ UNCHANGED <<rd, budget>>

\* the receiver.recv() arm of process_client up to its write_all
RecvW(t) ==
  /\ pc[t] = "select"
  /\ phase[t] = "client"
  /\ queue[t] # <<>>
  /\ Apply(WriteHeld(deliver_client([St EXCEPT !.queue[t] = Tail(@)], t, Head(queue[t])), t))
  /\ UNCHANGED <<rd, budget>>

\* write_all returns: the record is on the socket and the task is back at its select!
WriteAll(t) ==
  /\ pc[t] = "write_all"
  /\ sockOut' = [sockOut EXCEPT ![t] = Append(@, req[t][1].line)]
  /\ pc' = [pc EXCEPT ![t] = "select"]
  /\ req' = [req EXCEPT ![t] = None]
  /\ UNCHANGED <<users, user_conns, channels, servers, phase, username, queue, callbacks,
                 rd, fedreg, pending, hist, budget, supervisor, locks>>

MaxWriterLines == 6

WriterLines ==
  {LRegister("alice", "pw"), LLogin("alice", "pw"), LCreate("room"), LJoin(<<"room">>)}

WriterOtherLines == {LLogin("alice", "pw"), LSay("room", <<"hi">>)}

InitWriter == Init0 /\ budget = MaxWriterLines

NextWriter ==
  \/ \E l \in WriterLines : ReadW("c1", l)
  \/ \E l \in WriterOtherLines : ReadW("c2", l)
  \/ \E t \in {"c1", "c2"} :
       \/ HandlerW(t)
       \/ RecvW(t)
       \/ WriteAll(t)

SpecWriter == InitWriter /\ [][NextWriter]_vars

(***************************************************************************)
(* Malformed records: one connection that is sent well-formed client       *)
(* records, client records with an argument missing, and a peer record.    *)
(***************************************************************************)
LChannels == <<"CHANNELS">>

MaxMalformedLines == 5

MalformedLines ==
  {LRegister("alice", "pw"), LLogin("alice", "pw"), LCreate("room"), LChannels,
   <<"SAY", SP, "onlyonearg">>, <<"REGISTER", SP, "alice">>, LFedOut}

InitMalformed == Init0 /\ budget = MaxMalformedLines

NextMalformed ==
  \/ \E l \in MalformedLines : EnvLine("c1", l)
  \/ RegisterWrite("c1")
  \/ CreateWrite("c1")
  \/ CreateAlert("c1")

SpecMalformed == InitMalformed /\ [][NextMalformed]_vars

(***************************************************************************)
(* Shutdown of instance A.  Every task main spawns holds a Shutdown: a     *)
(* receiver of the shutdown broadcast and a clone of task_send.  After the *)
(* interrupt main drops shutdown_send, which completes every pending and   *)
(* later shutdown.recv() with Err(Closed), and waits in task_recv.recv()   *)
(* until every clone of task_send is gone.                                 *)
(***************************************************************************)

\* the tasks main of instance A has spawned
Spawned == {t \in Tasks : inst(t) = "A"}

\* fn main: the ctrl_c arm, the two drops, and main is in task_recv.recv()
Interrupt ==
  /\ supervisor = "serving"
  /\ supervisor' = "waiting"
  /\ UNCHANGED <<users, user_conns, channels, servers, phase, username, queue, callbacks,
                 sockOut, rd, pc, req, fedreg, pending, hist, budget, locks>>

\* the shutdown arm of a select!: of fn process while it waits for the first
\* line, of the loop of process_client or process_server; the task returns and
\* its queue is dropped with what it holds
Shutdown(t) ==
  /\ supervisor = "waiting"
  /\ t \in Spawned
  /\ pc[t] = "select"
  /\ phase[t] \in {"new", "client", "server"}
  /\ Apply([St EXCEPT !.phase[t] = "exited"])
  /\ UNCHANGED <<rd, budget>>

\* task_recv.recv() returning while tasks are running
Terminate_early ==
  /\ supervisor = "waiting"
  /\ supervisor' = "terminated"
  /\ UNCHANGED <<users, user_conns, channels, servers, phase, username, queue, callbacks,
                 sockOut, rd, pc, req, fedreg, pending, hist, budget, locks>>

\* task_recv.recv() returns None when the last clone of task_send is dropped,
\* that is when every spawned task has ended; main prints and returns
Terminate ==
  /\ supervisor = "waiting"
  /\ \A t \in Spawned : phase[t] \in DeadPhases
  /\ supervisor' = "terminated"
  /\ UNCHANGED <<users, user_conns, channels, servers, phase, username, queue, callbacks,
                 sockOut, rd, pc, req, fedreg, pending, hist, budget, locks>>

MaxShutdownLines == 3

ShutdownClientLines == {LCreate("room")}

ShutdownPeerLines == {LFedOut, LFedNew("hall")}

InitShutdown == Init0 /\ budget = MaxShutdownLines

NextShutdown ==
  \/ \E l \in ShutdownClientLines : EnvLine("c1", l)
  \/ \E l \in ShutdownPeerLines : EnvLine("p1", l)
  \/ CreateWrite("c1")
  \/ CreateAlert("c1")
  \/ Deliver("p1")
  \/ Dial("d")
  \/ Interrupt
  \/ \E t \in Spawned : Shutdown(t)
  \/ Terminate

\* a task that can take a step takes one: the runtime runs every spawned task,
\* and a select! whose shutdown arm is ready does not pass it over for ever
SpecShutdown ==
  /\ InitShutdown
  /\ [][NextShutdown]_vars
  /\ \A t \in Spawned : WF_vars(Shutdown(t))
  /\ WF_vars(CreateWrite("c1"))
  /\ WF_vars(CreateAlert("c1"))
  /\ WF_vars(Dial("d"))
  /\ WF_vars(Terminate)

(***************************************************************************)
(* The callback-arming item, one await at a time: a client session whose   *)
(* JOINs of a remote channel go to an accepted peer connection of the same *)
(* instance, and the FEDRESULTs that come back on it.                      *)
(***************************************************************************)

\* ArmWrite going back to the select! with the callback not installed
ArmWrite_detached(t) ==
  /\ pc[t] = "select"
  /\ phase[t] = "server"
  /\ queue[t] # <<>>
  /\ Head(queue[t]).tag = "CallbackMessage"
  /\ LET msg == Head(queue[t])
         w == Write([St EXCEPT !.queue[t] = Tail(@)], t, msg.message)
     IN Apply([w EXCEPT !.pending[t] = Append(@, <<<<msg.user, msg.response>>, msg.channel>>)])
  /\ UNCHANGED <<rd, budget>>

\* the receiver.recv() arm of process_server for a CallbackMessage, up to the end of
\* writer.write_all(message).await: the text is on the socket, the task is still
\* in the body of the arm
ArmWrite(t) ==
  /\ pc[t] = "select"
  /\ phase[t] = "server"
  /\ queue[t] # <<>>
  /\ Head(queue[t]).tag = "CallbackMessage"
  /\ LET msg == Head(queue[t])
         w == Write([St EXCEPT !.queue[t] = Tail(@)], t, msg.message)
     IN Apply([w EXCEPT !.pc[t] = "callback_insert",
                        !.req[t] = Some(msg),
                        !.pending[t] = Append(@, <<<<msg.user, msg.response>>, msg.channel>>)])
  /\ UNCHANGED <<rd, budget>>

\* connection.callbacks.insert((user, response), channel), and the task is back
\* at its select!
ArmInstall(t) ==
  /\ pc[t] = "callback_insert"
  /\ LET msg == req[t][1]
     IN Apply([St EXCEPT !.callbacks[t] = Insert(@, <<msg.user, msg.response>>, msg.channel),
                         !.pc[t] = "select",
                         !.req[t] = None])
  /\ UNCHANGED <<rd, budget>>

MaxArmLines == 7

ArmClientLines ==
  {LRegister("alice", "pw"), LLogin("alice", "pw"), LJoin(<<"room", ":">> \o ListenAddr("A"))}

ArmPeerLines == {LFedOut, LFedResultJoin(<<"alice">>, "room", "1")}

InitArm == Init0 /\ budget = MaxArmLines

NextArm ==
  \/ \E l \in ArmClientLines : EnvLine("c1", l)
  \/ \E l \in ArmPeerLines : EnvLine("p1", l)
  \/ RegisterWrite("c1")
  \/ Deliver("c1")
  \/ ArmWrite("p1")
  \/ ArmInstall("p1")

SpecArm == InitArm /\ [][NextArm]_vars

(***************************************************************************)
(* A member behind a session that has ended: a client session, and an      *)
(* accepted peer connection whose socket may fail.                         *)
(***************************************************************************)
MaxDeadLines == 6

DeadClientLines ==
  {LRegister("alice", "pw"), LLogin("alice", "pw"), LCreate("room"), LJoin(<<"room">>),
   LSay("room", <<"hi">>)}

DeadPeerLines == {LFedJoin(<<"bob">>, "room")}

InitDead == Init0 /\ budget = MaxDeadLines

NextDead ==
  \/ \E l \in DeadClientLines : EnvLine("c1", l)
  \/ \E l \in DeadPeerLines : EnvLine("p1", l)
  \/ ReadError("p1")
  \/ \E t \in {"c1", "p1"} :
       \/ RegisterWrite(t)
       \/ JoinWrite(t)
       \/ CreateWrite(t)
       \/ CreateAlert(t)
       \/ FedJoinWrite(t)
       \/ Deliver(t)

SpecDead == InitDead /\ [][NextDead]_vars

(***************************************************************************)
(* The channel list of the bootstrap exchange: an accepted peer connection *)
(* that is sent FEDOUT and the FEDCHANNELS lines fn list_channels makes of *)
(* the channel maps over two names, the empty map among them.              *)
(***************************************************************************)
ChannelNames == {<<"room">>, <<"lobby">>}

\* the line fed_confirm makes of a channel map iterated in this order
LFedChannels(order) == list_channels(<<"FEDCHANNELS">>, order)

MaxAdvertiseLines == 4

AdvertiseLines ==
  {LFedOut} \cup UNION {{LFedChannels(order) : order \in Perms(S)} : S \in SUBSET ChannelNames}

InitAdvertise == Init0 /\ budget = MaxAdvertiseLines

NextAdvertise == \E l \in AdvertiseLines : EnvLine("p1", l)

SpecAdvertise == InitAdvertise /\ [][NextAdvertise]_vars

(***************************************************************************)
(* LOGIN: one client session, two accounts, a wrong password, and a        *)
(* channel the session joins.                                              *)
(***************************************************************************)
MaxLoginLines == 6

LoginLines ==
  {LRegister("alice", "pw"), LRegister("bob", "pw"), LLogin("alice", "pw"),
   LLogin("alice", "bad"), LLogin("bob", "pw"), LCreate("room"), LJoin(<<"room">>)}

InitLogin == Init0 /\ budget = MaxLoginLines

NextLogin ==
  \/ \E l \in LoginLines : EnvLine("c1", l)
  \/ RegisterWrite("c1")
  \/ CreateWrite("c1")
  \/ CreateAlert("c1")
  \/ JoinWrite("c1")

SpecLogin == InitLogin /\ [][NextLogin]_vars

(***************************************************************************)
(* Delivery order: a client session that speaks twice in a channel it      *)
(* shares with a remote member, so that its own queue and the queue of the *)
(* peer session both hold two records.                                     *)
(***************************************************************************)
MaxFifoLines == 7

FifoClientLines ==
  {LRegister("alice", "pw"), LLogin("alice", "pw"), LCreate("room"), LJoin(<<"room">>),
   LSay("room", <<"hi">>), LSay("room", <<"yo">>)}

FifoPeerLines == {LFedJoin(<<"bob">>, "room")}

InitFifo == Init0 /\ budget = MaxFifoLines

NextFifo ==
  \/ \E l \in FifoClientLines : EnvLine("c1", l)
  \/ \E l \in FifoPeerLines : EnvLine("p1", l)
  \/ RegisterWrite("c1")
  \/ CreateWrite("c1")
  \/ CreateAlert("c1")
  \/ JoinWrite("c1")
  \/ FedJoinWrite("p1")
  \/ \E t \in {"c1", "p1"} : Deliver(t)

SpecFifo == InitFifo /\ [][NextFifo]_vars

(***************************************************************************)
(* The RwLocks of one Server, at the grain of single acquisitions.  Each   *)
(* handler is the sequence of lock operations, queue sends and the socket  *)
(* write of its reply that one path through its body performs; a guard is  *)
(* released where its scope or its statement ends.                         *)
(***************************************************************************)
read(l) == [op |-> "read", lock |-> l]
write(l) == [op |-> "write", lock |-> l]
drop(l) == [op |-> "drop", lock |-> l]
send == [op |-> "send", lock |-> "-"]
write_all == [op |-> "write_all", lock |-> "-"]

\* fn register: the name is taken; the name is free
register_locks ==
  {<<read("users"), drop("users"), write_all>>,
   <<read("users"), drop("users"), write("users"), drop("users"), write_all>>}

\* fn login: the guard of the if let lives to the end of its block
login_locks == {<<read("users"), drop("users"), write_all>>}

\* fn join: the remote arm with a known peer; the local arm, for a member and for
\* a newcomer
join_locks ==
  {<<read("channels"), read("servers"), send, drop("servers"), drop("channels"), write_all>>,
   <<read("channels"), read("members"), drop("members"), drop("channels"), write_all>>,
   <<read("channels"), read("members"), drop("members"), write("members"), drop("members"),
     drop("channels"), write_all>>}

\* fn create: the channel exists; the channel is new and a peer is alerted
create_locks ==
  {<<read("channels"), drop("channels"), write_all>>,
   <<read("channels"), drop("channels"), write("channels"), drop("channels"),
     read("servers"), send, drop("servers"), write_all>>}

\* fn _say for a member: both guards live to the end of the function
_say_locks ==
  <<read("channels"), read("members"), send, drop("members"), drop("channels")>>

\* fn say
say_locks == {_say_locks \o <<write_all>>}

\* fn list_channels
list_channels_locks == <<read("channels"), drop("channels")>>

\* fn channels
channels_locks == {list_channels_locks \o <<write_all>>}

\* fn fed_out
fed_out_locks == {<<write("servers"), drop("servers"), write_all>>}

\* fn fed_confirm holding the guard of Server.servers through list_channels
fed_confirm_locks_held ==
  {<<write("servers")>> \o list_channels_locks \o <<drop("servers"), write_all>>}

\* fn fed_confirm: the guard of Server.servers is a temporary of the insert statement
fed_confirm_locks ==
  {<<write("servers"), drop("servers")>> \o list_channels_locks \o <<write_all>>}

\* fn fed_channels: the sender is not registered (panic!() unwinds); one name;
\* two names
fed_channels_locks ==
  {<<read("servers"), drop("servers")>>,
   <<read("servers"), write("peer.channels"), drop("peer.channels"), drop("servers")>>,
   <<read("servers"), write("peer.channels"), drop("peer.channels"),
     write("peer.channels"), drop("peer.channels"), drop("servers")>>}

\* fn fed_new
fed_new_locks ==
  {<<read("servers"), drop("servers")>>,
   <<read("servers"), write("peer.channels"), drop("peer.channels"), drop("servers")>>}

\* fn fed_join
fed_join_locks ==
  {<<read("channels"), read("members"), drop("members"), drop("channels"), write_all>>,
   <<read("channels"), read("members"), drop("members"), write("members"), drop("members"),
     drop("channels"), write_all>>}

\* fn fed_say
fed_say_locks == {_say_locks \o <<write_all>>}

\* fn fed_recv for a user with an endpoint
fed_recv_locks == {<<read("user_conns"), send, drop("user_conns")>>}

\* process_client_request
ClientLocks ==
  register_locks \cup login_locks \cup join_locks \cup create_locks \cup say_locks
    \cup channels_locks

\* process_server_request
ServerLocks ==
  fed_out_locks \cup fed_confirm_locks \cup fed_channels_locks \cup fed_new_locks
    \cup fed_join_locks \cup fed_say_locks \cup fed_recv_locks

Holders(l, m) == {u \in Tasks : <<l, m>> \in locks[u].held}

\* the tasks parked in RwLock::write of l
WaitingWriters(l) ==
  {u \in Tasks : locks[u].todo # <<>> /\ Head(locks[u].todo) = write(l)}

\* RwLock::read returns: no other task holds the write guard.  Whether a reader
\* is also held back by a parked writer is left to the platform by std; a task
\* that re-enters a lock it holds is not woken by anyone.
MayRead(t, l) == Holders(l, "write") = {}

\* RwLock::write returns: nobody holds a guard
MayWrite(t, l) == Holders(l, "write") = {} /\ Holders(l, "read") = {}

\* RwLock::read returns on a platform that makes readers queue behind parked writers
MustRead(t, l) == MayRead(t, l) /\ WaitingWriters(l) \ {t} = {}

\* a request arrives at a session of instance A and its handler is entered
BeginLocks(t, prog) ==
  /\ budget > 0
  /\ locks[t].todo = <<>>
  /\ locks' = [locks EXCEPT ![t].todo = prog]
  /\ budget' = budget - 1
  /\ UNCHANGED <<users, user_conns, channels, servers, phase, username, queue, callbacks,
                 sockOut, rd, pc, req, fedreg, pending, hist, supervisor>>

\* the next lock operation of the handler of t
LockStep(t) ==
  /\ locks[t].todo # <<>>
  /\ LET o == Head(locks[t].todo)
     IN /\ CASE o.op = "read" -> MayRead(t, o.lock)
             [] o.op = "write" -> MayWrite(t, o.lock)
             [] OTHER -> TRUE
        /\ locks' = [locks EXCEPT
                       ![t].todo = Tail(@),
                       ![t].held = CASE o.op \in {"read", "write"} -> @ \cup {<<o.lock, o.op>>}
                                     [] o.op = "drop" ->
                                          @ \ {<<o.lock, "read">>, <<o.lock, "write">>}
                                     [] OTHER -> @]
  /\ UNCHANGED <<users, user_conns, channels, servers, phase, username, queue, callbacks,
                 sockOut, rd, pc, req, fedreg, pending, hist, budget, supervisor>>

MaxLockRequests == 4

InitLocks == Init0 /\ budget = MaxLockRequests

NextLocks ==
  \/ \E t \in {"c1", "c2"} : \E prog \in ClientLocks : BeginLocks(t, prog)
  \/ \E t \in {"p1", "p2"} : \E prog \in ServerLocks : BeginLocks(t, prog)
  \/ \E t \in {"c1", "c2", "p1", "p2"} : LockStep(t)

SpecLocks == InitLocks /\ [][NextLocks]_vars

(***************************************************************************)
(* Properties.                                                             *)
(***************************************************************************)

\* the handled requests: <<task, position in its history>>
Answers == UNION {{<<t, k>> : k \in 1..Len(hist[t])} : t \in Tasks}

Entry(a) == hist[a[1]][a[2]]

\* task t has just finished a request: the entry its history gained
Finished(t) == Len(hist'[t]) = Len(hist[t]) + 1
Last(t) == hist'[t][Len(hist'[t])]

RegisteredOk(a, u) ==
  /\ Entry(a).req.kind = "Register"
  /\ Entry(a).req.username = u
  /\ Entry(a).reply = Some(<<"RESULT", SP, "REGISTER", SP, "1">>)

\* C1: for every username, among all the REGISTER requests naming it that the
\* client sessions have answered, at most one was answered with status 1 (every
\* other one with status 0), in every interleaving of the sessions.
C1_RegisterAnsweredOnce ==
  \A a \in Answers, b \in Answers :
    (/\ Entry(a).req.kind = "Register"
     /\ RegisteredOk(a, Entry(a).req.username)
     /\ RegisteredOk(b, Entry(a).req.username)) => a = b

JoinedOk(t, k, c, u) ==
  /\ hist[t][k].req.kind = "Join"
  /\ hist[t][k].req.channel = c
  /\ hist[t][k].user = Some(u)
  /\ hist[t][k].reply = Some(JoinReply(c, TRUE))

\* C2: once a session logged in as u has been answered RESULT JOIN c 1, every
\* later JOIN c it finishes while logged in as u is answered with status 0 and
\* leaves the channels, the membership of c among them, as they were.
C2_SecondJoinRejected ==
  [][\A t \in Tasks :
       (/\ Finished(t)
        /\ Last(t).req.kind = "Join"
        /\ Last(t).user # None
        /\ \E k \in 1..Len(hist[t]) :
             JoinedOk(t, k, Last(t).req.channel, Last(t).user[1]))
       => (/\ Last(t).reply = Some(JoinReply(Last(t).req.channel, FALSE))
           /\ channels' = channels)]_vars

\* the peer sessions of instance i that are connected and have registered
\* (have run fed_out or fed_confirm)
RegisteredPeers(i) == {u \in fedreg : inst(u) = i /\ phase[u] = "server"}

\* C3: whenever a CREATE name is answered with status 1, every peer session
\* that is connected and registered at that moment gets exactly one FEDNEW name
\* on its queue in that step, however many peers are connected.
C3_FedNewToEveryPeer ==
  [][\A t \in Tasks :
       (/\ Finished(t)
        /\ Last(t).req.kind = "Create"
        /\ Last(t).reply = Some(CreateReply(Last(t).req.channel, TRUE)))
       => \A u \in RegisteredPeers(inst(t)) :
            queue'[u] = Append(queue[u], [tag |-> "Message",
                                          text |-> <<"FEDNEW", SP>> \o Last(t).req.channel])]_vars

\* what the step has appended to the queue of task e
Appended(e) == SubSeq(queue'[e], Len(queue[e]) + 1, Len(queue'[e]))

RecvLine(u, c, m) == <<"RECV", SP>> \o u \o <<SP>> \o c \o <<SP>> \o m

FedRecvItem(to, u, c, m) ==
  [tag |-> "Message",
   text |-> <<"FEDRECV", SP>> \o to \o <<SP>> \o u \o <<SP>> \o c \o <<SP>> \o m]

\* the fan-out of a message m by u in the channel with members ms: every
\* queue keeps what it held and gains one record per member it serves, RECV u c m
\* for a local member, FEDRECV member u c m for a remote one
FannedOut(ms, u, c, m) ==
  \A e \in Tasks :
    LET mine == {n \in DOMAIN ms : ms[n].ep = e}
        new == Appended(e)
    IN /\ Len(queue'[e]) >= Len(queue[e])
       /\ SubSeq(queue'[e], 1, Len(queue[e])) = queue[e]
       /\ Len(new) = Cardinality(mine)
       /\ \A n \in mine :
            IF ms[n].kind = "Local"
            THEN \A k \in 1..Len(new) : new[k] = RecvLine(u, c, m)
            ELSE \E k \in 1..Len(new) : new[k] = FedRecvItem(n, u, c, m)

SayReply(c, ok) == <<"RESULT", SP, "SAY", SP>> \o c \o <<SP>> \o Status(ok)

ResultJoinLine(c, st) == <<"RESULT", SP, "JOIN", SP>> \o c \o <<SP>> \o st

JoinKey(r) == <<r.user, <<"Join", r.channel>>>>

\* the positions of pending[t] that are under key
PendingAt(t, key) == {k \in 1..Len(pending[t]) : pending[t][k][1] = key}

\* the client sessions for which t has written a FEDJOIN / FEDSAY under key that no
\* FEDRESULT has followed yet
Armers(t, key) == {pending[t][k][2] : k \in PendingAt(t, key)}

\* the one among them whose record was written last
LastArmer(t, key) ==
  pending[t][CHOOSE k \in PendingAt(t, key) : \A j \in PendingAt(t, key) : j <= k][2]

C9_NoSynchronousReply ==
  \A a \in Answers :
    (/\ Entry(a).req.kind = "Join"
     /\ Contains(Entry(a).req.channel, ":")
     /\ Entry(a).user # None)
    => Entry(a).reply = None

\* the client sessions of instance i that are running and logged in as u
SessionsOf(i, u) ==
  {c \in Tasks : inst(c) = i /\ phase[c] = "client" /\ username[c] = Some(u)}

\* C7: when a peer session has handled FEDRECV to from channel message and `to` is
\* logged in on a running client session of the instance, RECV from channel message
\* has been put on the queue of such a session; when `to` is logged in nowhere,
\* no queue and no part of the directory has changed.
C7_FedRecvDelivered ==
  [][\A t \in Tasks :
       (Finished(t) /\ Last(t).req.kind = "Recv")
       => LET r == Last(t).req
          IN IF SessionsOf(inst(t), r.to_user) # {}
             THEN \E c \in SessionsOf(inst(t), r.to_user) :
                    queue'[c] = Append(queue[c], RecvLine(r.from_user, r.channel, r.msg))
             ELSE /\ queue' = queue
                  /\ <<users, user_conns, channels, servers>>' =
                       <<users, user_conns, channels, servers>>]_vars

\* C8: when the task that accepted a connection has read FEDERATEOUT as its
\* first record, it is a peer session, it has registered the dialer with an empty
\* advertised-channel set, and FEDCONFIRM is the first line it has written.
C8_FederateOutAccepted ==
  \A t \in Tasks :
    (/\ link(t) # None
     /\ rd[t] >= 1
     /\ sockOut[link(t)[1]][1] = <<"FEDERATEOUT">>)
    => /\ phase[t] = "server"
       /\ t \in fedreg
       /\ \E a \in DOMAIN servers[inst(t)] : servers[inst(t)][a] = NewRemote(t)
       /\ Len(sockOut[t]) >= 1
       /\ sockOut[t][1] = <<"FEDCONFIRM">>

\* C6: when alice, logged in on A, has had JOIN room:<B-addr> handled at a time when
\* A had dialed B, B had read A's first record and room existed on B, the
\* callback-arming item carrying FEDJOIN alice@<A-addr> room is on the queue of A's
\* peer session for B.
C6_RemoteJoinForwarded ==
  [][\A t \in Tasks :
       (/\ Finished(t)
        /\ inst(t) = "A"
        /\ Last(t).req.kind = "Join"
        /\ Last(t).req.channel = <<"room", ":">> \o ListenAddr("B")
        /\ Last(t).user = Some(<<"alice">>)
        /\ phase["d"] # "unconnected"
        /\ rd["b"] >= 1
        /\ <<"room">> \in DOMAIN channels["B"])
       => \E k \in 1..Len(queue'["d"]) :
            /\ queue'["d"][k].tag = "CallbackMessage"
            /\ queue'["d"][k].channel = t
            /\ queue'["d"][k].message =
                 <<"FEDJOIN", SP, "alice", "@">> \o ListenAddr("A") \o <<SP, "room">>]_vars

FedSayReply(r, ok) ==
  <<"FEDRESULT", SP>> \o r.user \o <<SP, "SAY", SP>> \o r.channel \o <<SP>> \o Status(ok)
    \o <<SP>> \o r.msg

\* C10: when a peer session has handled FEDSAY user channel message, its reply is
\* FEDRESULT user SAY channel s message with s = 1 exactly when channel exists and
\* user is a member of it, and in that case the step has fanned message out to the
\* members of channel as a SAY by user would.
C10_FedSayAsSay ==
  [][\A t \in Tasks :
       (Finished(t) /\ Last(t).req.kind = "FedSay")
       => LET r == Last(t).req
              cs == channels[inst(t)]
              member == r.channel \in DOMAIN cs /\ r.user \in DOMAIN cs[r.channel]
          IN /\ Last(t).reply = Some(FedSayReply(r, member))
             /\ member => FannedOut(cs[r.channel], r.user, r.channel, r.msg)]_vars

AllEnded == \A t \in Spawned : phase[t] \in DeadPhases

\* C13: after the interrupt every task the supervisor has spawned (a client session,
\* a peer session, a connection still waiting for its first record) eventually
\* ends; a task that exits on shutdown writes nothing and leaves its queue as it
\* is; the supervisor terminates eventually, and only when all of them have ended.
C13_GracefulShutdown ==
  /\ [](supervisor = "terminated" => AllEnded)
  /\ (supervisor = "waiting") ~> AllEnded
  /\ (supervisor = "waiting") ~> (supervisor = "terminated")
  /\ [][\A t \in Tasks :
          (phase[t] \notin DeadPhases /\ phase'[t] = "exited")
          => (sockOut' = sockOut /\ queue' = queue)]_vars

\* the supervisor has terminated, a peer session has exited with an item still on
\* its queue, and a connection has exited before its first record
C13_Witness ==
  /\ supervisor = "terminated"
  /\ \E t \in Spawned : phase[t] = "exited" /\ queue[t] # <<>> /\ t \in fedreg
  /\ \E t \in Spawned : phase[t] = "exited" /\ hist[t] = <<>> /\ sockOut[t] = <<>>

\* C14: a SAY channel message that a client session has answered carries status 1
\* exactly when the session was logged in, the channel existed and the session's
\* username was a member of it; when the status is 0 the step has put nothing on
\* any queue and has left the directory as it was.
C14_SayStatus ==
  [][\A t \in Tasks :
       (Finished(t) /\ Last(t).req.kind = "Say")
       => LET r == Last(t).req
              cs == channels[inst(t)]
              ok == /\ username[t] # None
                    /\ r.channel \in DOMAIN cs
                    /\ username[t][1] \in DOMAIN cs[r.channel]
          IN /\ Last(t).reply = Some(SayReply(r.channel, ok))
             /\ sockOut'[t] = Append(sockOut[t], SayReply(r.channel, ok))
             /\ ~ok => /\ queue' = queue
                       /\ UNCHANGED <<users, user_conns, channels, servers, username>>]_vars

\* a logged-in session has created a channel, has been answered RESULT SAY 0 for it
\* while it was not a member, has joined it, and has then been answered RESULT SAY 1
C14_Witness ==
  \E t \in Tasks :
    \E i \in 1..Len(hist[t]), j \in 1..Len(hist[t]), k \in 1..Len(hist[t]) :
      /\ i < j /\ j < k
      /\ hist[t][i].req.kind = "Create"
      /\ hist[t][i].reply = Some(CreateReply(hist[t][i].req.channel, TRUE))
      /\ hist[t][j].req.kind = "Say"
      /\ hist[t][j].req.channel = hist[t][i].req.channel
      /\ hist[t][j].user # None
      /\ hist[t][j].reply = Some(SayReply(hist[t][j].req.channel, FALSE))
      /\ hist[t][k].req.kind = "Say"
      /\ hist[t][k].req.channel = hist[t][i].req.channel
      /\ hist[t][k].reply = Some(SayReply(hist[t][k].req.channel, TRUE))

\* the callback key of a FEDJOIN user@addr channel line, None for any other line
ArmedKey(line) ==
  LET q == parse_server(line)
  IN IF q = None \/ q[1].kind # "FedJoin" THEN None
     ELSE LET so == SplitOnce(q[1].user, "@")
          IN IF so = None THEN None ELSE Some(<<so[1][1], <<"Join", q[1].channel>>>>)

\* how many FEDJOINs under key task t has written, and how many FEDRESULTs under
\* key it has handled
WrittenFor(t, key) ==
  Cardinality({k \in 1..Len(sockOut[t]) : ArmedKey(sockOut[t][k]) = Some(key)})

ResultsFor(t, key) ==
  Cardinality({k \in 1..Len(hist[t]) :
                 hist[t][k].req.kind = "ResultJoin" /\ JoinKey(hist[t][k].req) = key})

\* C15 (as amended): a peer session handles an inbound record only from its select!,
\* never between the write of a FEDJOIN and the installation of its callback; hence
\* whenever it handles the first FEDRESULT u JOIN ch that follows FEDJOINs it has
\* written for (u, ch), the callback for (u, ch) is in its table and names the
\* session whose FEDJOIN was written last.
C15_InstalledBeforeReply ==
  [][\A t \in Tasks :
       /\ Finished(t) => pc[t] \notin {"callback_insert"}
       /\ (/\ Finished(t)
           /\ Last(t).req.kind = "ResultJoin"
           /\ Armers(t, JoinKey(Last(t).req)) # {})
          => /\ JoinKey(Last(t).req) \in DOMAIN callbacks[t]
             /\ callbacks[t][JoinKey(Last(t).req)] = LastArmer(t, JoinKey(Last(t).req))]_vars

\* C15 (as claimed): whenever a peer session handles a FEDRESULT u JOIN ch while it
\* has written more FEDJOINs for (u, ch) than it has handled FEDRESULTs for (u, ch),
\* the callback for (u, ch) is in its table.
C15_NeverMissing ==
  [][\A t \in Tasks :
       (/\ Finished(t)
        /\ Last(t).req.kind = "ResultJoin"
        /\ WrittenFor(t, JoinKey(Last(t).req)) > ResultsFor(t, JoinKey(Last(t).req)))
       => JoinKey(Last(t).req) \in DOMAIN callbacks[t]]_vars

\* a peer session has written a FEDJOIN, has installed its callback, and has then
\* handled a FEDRESULT for it that the client session has been written
C15_Witness ==
  \E t \in Tasks, c \in Tasks :
    /\ WrittenFor(t, <<<<"alice">>, <<"Join", <<"room">>>>>>) >= 1
    /\ ResultsFor(t, <<<<"alice">>, <<"Join", <<"room">>>>>>) >= 1
    /\ pending[t] = <<>>
    /\ pc[t] = "select"
    /\ \E k \in 1..Len(sockOut[c]) : sockOut[c][k] = ResultJoinLine(<<"room">>, <<"1">>)

\* the <<channel, username>> of a join request answered with status 1: a JOIN by a
\* session logged in as that user, or a FEDJOIN naming that user
Joined(a) ==
  LET e == Entry(a)
  IN IF e.req.kind = "Join" /\ e.user # None /\ e.reply = Some(JoinReply(e.req.channel, TRUE))
     THEN Some(<<e.req.channel, e.user[1]>>)
     ELSE IF /\ e.req.kind = "FedJoin"
             /\ e.reply = Some(FedJoinReply(e.req.user, e.req.channel, TRUE))
     THEN Some(<<e.req.channel, e.req.user>>)
     ELSE None

\* C16: for every channel c and username u of an instance, among all the JOIN c
\* requests of sessions logged in as u and all the FEDJOIN u c requests of peer
\* sessions, at most one has been answered with status 1, in every interleaving.
C16_OneJoinPerMember ==
  \A a \in Answers, b \in Answers :
    (/\ Joined(a) # None
     /\ Joined(b) = Joined(a)
     /\ inst(a[1]) = inst(b[1])) => a = b

CreatedOk(a, i, c) ==
  /\ inst(a[1]) = i
  /\ Entry(a).req.kind = "Create"
  /\ Entry(a).req.channel = c
  /\ Entry(a).reply = Some(CreateReply(c, TRUE))

\* C17: a channel is never deleted or replaced: no step answers a CREATE name with
\* status 1 when a CREATE name of the same instance has been answered with status 1
\* before, and a user who is a member of a channel is a member of it after every step.
C17_ChannelsPersist ==
  [][/\ \A t \in Tasks :
          (/\ Finished(t)
           /\ Last(t).req.kind = "Create"
           /\ Last(t).reply = Some(CreateReply(Last(t).req.channel, TRUE)))
          => ~\E a \in Answers : CreatedOk(a, inst(t), Last(t).req.channel)
     /\ \A i \in Inst :
          \A c \in DOMAIN channels[i] :
            /\ c \in DOMAIN channels'[i]
            /\ \A u \in DOMAIN channels[i][c] : u \in DOMAIN channels'[i][c]]_vars

\* the names a FEDNEW or FEDCHANNELS request advertises
Advertised(r) == IF r.kind = "New" THEN {r.channel} ELSE ChannelList(r.channels)

\* C18: when a registered peer session has handled FEDNEW name or FEDCHANNELS list,
\* the peer map holds a record whose endpoint is that session's own endpoint, that
\* record's advertised set is what it was plus the names, and every other record of
\* the map is unchanged.
C18_OwnPeerRecord ==
  [][\A t \in Tasks :
       (/\ Finished(t)
        /\ Last(t).req.kind \in {"New", "FedChannels"}
        /\ t \in fedreg)
       => LET sv == servers[inst(t)]
              sw == servers'[inst(t)]
          IN /\ DOMAIN sw = DOMAIN sv
             /\ \E a \in DOMAIN sv :
                  /\ sv[a].channel = t
                  /\ sw[a] = [sv[a] EXCEPT !.channels = @ \cup Advertised(Last(t).req)]
                  /\ \A b \in DOMAIN sv \ {a} : sw[b] = sv[b]]_vars

\* C19: when a logged-in client session that is a member of channel c reads SAY c m
\* while another member of c belongs to a session that has ended, the step puts
\* RECV u c m on the queue of every running local member's session, answers
\* RESULT SAY c 1, and leaves the speaker's session running.
C19_FailureContained ==
  [][\A t \in Tasks, c \in {"room"}, m \in {<<"hi">>} :
       (/\ phase[t] = "client"
        /\ username[t] # None
        /\ <<c>> \in DOMAIN channels[inst(t)]
        /\ username[t][1] \in DOMAIN channels[inst(t)][<<c>>]
        /\ \E n \in DOMAIN channels[inst(t)][<<c>>] :
             phase[channels[inst(t)][<<c>>][n].ep] \in DeadPhases
        /\ EnvLine(t, LSay(c, m)))
       => LET ms == channels[inst(t)][<<c>>]
          IN /\ phase'[t] = "client"
             /\ Finished(t)
             /\ Last(t).reply = Some(SayReply(<<c>>, TRUE))
             /\ \A n \in DOMAIN ms :
                  (ms[n].kind = "Local" /\ phase[ms[n].ep] \notin DeadPhases)
                  => \E k \in 1..Len(queue'[ms[n].ep]) :
                       /\ k > Len(queue[ms[n].ep])
                       /\ queue'[ms[n].ep][k] = RecvLine(username[t][1], <<c>>, m)]_vars

\* C20: when a registered peer session has handled the FEDCHANNELS line that
\* list_channels makes of a channel map, the names its record has gained are exactly
\* the names of that map: none for the empty map.
C20_AdvertisedIsListed ==
  [][\A t \in Tasks :
       (/\ Finished(t)
        /\ Last(t).req.kind = "FedChannels"
        /\ local_addr(t) \in DOMAIN servers[inst(t)])
       => \E S \in SUBSET ChannelNames :
            /\ \E order \in Perms(S) : ArgsOf(LFedChannels(order)) = Last(t).req.channels
            /\ servers'[inst(t)][local_addr(t)].channels =
                 servers[inst(t)][local_addr(t)].channels \cup S]_vars

LoginReply(ok) == <<"RESULT", SP, "LOGIN", SP>> \o Status(ok)

\* C21: a LOGIN u p that a client session has answered carries status 1 exactly
\* when the accounts held u with password p; with status 1 the session's identity
\* is u afterwards, whatever it was; with status 0 it is what it was; in both cases
\* the accounts, the channels with their members, the peers and the queues are as
\* they were.
C21_LoginBinds ==
  [][\A t \in Tasks :
       (Finished(t) /\ Last(t).req.kind = "Login")
       => LET r == Last(t).req
              us == users[inst(t)]
              ok == r.username \in DOMAIN us /\ us[r.username] = r.password
          IN /\ Last(t).reply = Some(LoginReply(ok))
             /\ sockOut'[t] = Append(sockOut[t], LoginReply(ok))
             /\ username'[t] = IF ok THEN Some(r.username) ELSE username[t]
             /\ UNCHANGED <<users, user_conns, channels, servers, queue>>]_vars

\* a session logged in as alice has been refused a LOGIN with a wrong password and
\* has kept its identity, and has then logged in as bob
C21_Witness ==
  \E t \in Tasks :
    \E i \in 1..Len(hist[t]), j \in 1..Len(hist[t]), k \in 1..Len(hist[t]) :
      /\ i < j /\ j < k
      /\ hist[t][i].req.kind = "Login"
      /\ hist[t][i].reply = Some(LoginReply(TRUE))
      /\ hist[t][i].user = Some(<<"alice">>)
      /\ hist[t][j].req.kind = "Login"
      /\ hist[t][j].reply = Some(LoginReply(FALSE))
      /\ hist[t][j].user = Some(<<"alice">>)
      /\ hist[t][k].req.kind = "Login"
      /\ hist[t][k].reply = Some(LoginReply(TRUE))
      /\ hist[t][k].user = Some(<<"bob">>)
      /\ username[t] = Some(<<"bob">>)

\* the line the session owning the queue of t writes for an item of that queue
Written(t, item) ==
  IF phase[t] = "client" THEN item
  ELSE IF item.tag = "Message" THEN item.text ELSE item.message

\* the lines of the given kind in a sequence of lines, in order
OfKind(lines, k) == SelectSeq(lines, LAMBDA l : KindOf(l) = <<k>>)

\* the message a RECV or FEDRECV line ends with
MessageOf(line) == <<line[Len(line)]>>

\* the messages of the SAYs answered with status 1 in a history, in order
Said(h) ==
  LET ok == SelectSeq(h, LAMBDA e : e.req.kind = "Say"
                                     /\ e.reply = Some(SayReply(e.req.channel, TRUE)))
  IN [k \in 1..Len(ok) |-> ok[k].req.message]

IsSuffix(a, b) == Len(a) <= Len(b) /\ a = SubSeq(b, Len(b) - Len(a) + 1, Len(b))

\* the messages of the records an endpoint has written and still holds, in order
Carried(t, k) ==
  LET lines == OfKind(sockOut[t], k) \o [n \in 1..Len(queue[t]) |-> Written(t, queue[t][n])]
  IN [n \in 1..Len(lines) |-> MessageOf(lines[n])]

\* C22: a queue changes only by gaining records at its end or by losing its first
\* record, and the step that takes the first record writes that record to the
\* socket of the owning session; hence the records a client session has written
\* followed by those it still holds are the speaker's accepted messages in the order
\* they were said, and those of a peer session are the messages said since its
\* member joined, in that order.
C22_FifoDelivery ==
  /\ [][\A t \in Tasks :
          \/ queue'[t] = queue[t]
          \/ /\ Len(queue'[t]) > Len(queue[t])
             /\ SubSeq(queue'[t], 1, Len(queue[t])) = queue[t]
          \/ /\ queue[t] # <<>>
             /\ queue'[t] = Tail(queue[t])
             /\ sockOut'[t] = Append(sockOut[t], Written(t, Head(queue[t])))]_vars
  /\ [](Carried("c1", "RECV") = Said(hist["c1"]))
  /\ [](IsSuffix(Carried("p1", "FEDRECV"), Said(hist["c1"])))

\* both sessions have written the two different messages in the order said, after
\* holding both records at once is possible: the second SAY was answered before the
\* peer session wrote the first record
C22_Witness ==
  /\ Said(hist["c1"]) = <<<<"hi">>, <<"yo">>>>
  /\ OfKind(sockOut["p1"], "FEDRECV")
       = <<FedRecvItem(<<"bob">>, <<"alice">>, <<"room">>, <<"hi">>).text>>
  /\ Len(queue["p1"]) = 1
  /\ Written("p1", queue["p1"][1])
       = FedRecvItem(<<"bob">>, <<"alice">>, <<"room">>, <<"yo">>).text
  /\ OfKind(sockOut["c1"], "RECV")
       = <<RecvLine(<<"alice">>, <<"room">>, <<"hi">>), RecvLine(<<"alice">>, <<"room">>, <<"yo">>)>>

\* the locks of the top-level maps of Server
DirectoryLocks == {"users", "user_conns", "channels", "servers"}

LockRank(l) ==
  CASE l = "users" -> 1
    [] l = "user_conns" -> 2
    [] l = "channels" -> 3
    [] l = "members" -> 4
    [] l = "servers" -> 5
    [] l = "peer.channels" -> 6

\* the handler of t does its next operation in this step
Steps(t) == locks[t].todo # <<>> /\ locks'[t].todo = Tail(locks[t].todo)

\* the handler of t can do its next operation even where readers queue behind
\* parked writers
CanStep(t) ==
  /\ locks[t].todo # <<>>
  /\ LET o == Head(locks[t].todo)
     IN CASE o.op = "read" -> MustRead(t, o.lock)
          [] o.op = "write" -> MayWrite(t, o.lock)
          [] OTHER -> TRUE

\* C23: a handler that holds the write guard of a top-level map acquires no lock
\* and writes to no socket until it has dropped it; a handler acquires a lock only
\* while every guard it holds is of a lower lock in the order users < user_conns <
\* channels < channel members < servers < a peer's channels; and whenever handlers
\* are in progress, one of them can take its next step, whichever way the platform
\* orders readers and parked writers, so that every handler runs to its end.
C23_LockDiscipline ==
  /\ [][\A t \in Tasks :
          Steps(t) =>
            LET o == Head(locks[t].todo)
            IN /\ o.op \in {"read", "write", "write_all"}
                    => \A d \in DirectoryLocks : <<d, "write">> \notin locks[t].held
               /\ o.op \in {"read", "write"}
                    => \A h \in locks[t].held : LockRank(h[1]) < LockRank(o.lock)]_vars
  /\ []((\E t \in Tasks : locks[t].todo # <<>>) => \E t \in Tasks : CanStep(t))
  /\ [](budget = 0 /\ (\A t \in Tasks : locks[t].todo = <<>>)
          => \A t \in Tasks : locks[t].held = {})

\* create is parked in channels.write() behind a join that holds channels.read()
\* and the write guard of the channel's members, while a peer session holds
\* servers.write()
C23_Witness ==
  /\ locks["c1"].todo # <<>>
  /\ Head(locks["c1"].todo) = write("channels")
  /\ locks["c2"].held = {<<"channels", "read">>, <<"members", "write">>}
  /\ locks["p1"].held = {<<"servers", "write">>}

====
